---------------------------- MODULE Spec2Model ----------------------------
(***************************************************************************)
(* Model of manager/searcher/searcher.go (Dragonfly2): the scheduler       *)
(* cluster searcher.  New selects the searcher once; FindSchedulerClusters *)
(* filters the candidate clusters, sorts the rest by descending Evaluate   *)
(* and returns them.                                                       *)
(*                                                                         *)
(* Strings are sequences of one-character strings, so that strings.Split   *)
(* and strings.EqualFold are computed and not assumed.  Scores are exact   *)
(* integers: a sub-score is counted in units of 1/maxElementLen (so 1.0 is *)
(* maxElementLen), a weight in percent, and Evaluate in units of           *)
(* 1/(100 * maxElementLen).  The hostname parameter is left out: no code   *)
(* reads it.                                                               *)
(***************************************************************************)
EXTENDS Integers, Sequences, FiniteSets, TLC

VARIABLES
    active,     \* the Searcher returned by New: "none" before New ran
    loadErr,    \* what LoadPlugin returned to New: "unset", "nil" or "err"
    s_cidrs,    \* the field searcher.cidrs, shared by all calls
    heap,       \* backing arrays of the slices: array id -> sequence of clusters
    args,       \* per goroutine: the ip and conditions of its call
    orig,       \* per goroutine: the caller's list as it was when the call began
    pc,         \* per goroutine: "idle", "sort" or "done"
    idx,        \* per goroutine: the insertion sort's loop indices i and j
    ret,        \* per goroutine: what the call returned (slice and error)
    served,     \* per goroutine: which searcher served its last call
    nreq,       \* number of completed requests
    score       \* the last value Evaluate returned, with its five sub-scores

vars == <<active, loadErr, s_cidrs, heap, args, orig, pc, idx, ret, served, nreq, score>>

---------------------------------------------------------------------------
(* Bounds of the model. *)

\* Longest candidate list of a sequential request.
MaxClusters == 3

\* Longest candidate list of each of the concurrent requests.
MaxConcLen == 2

\* Number of requests the caller makes after startup.
MaxRequests == 2

\* Width of a model IP address in bits.
IPBits == 4

---------------------------------------------------------------------------
(* Program constants. *)

ConditionSecurityDomain == "security_domain"
ConditionIDC == "idc"
ConditionLocation == "location"

\* Weights in percent.
securityDomainAffinityWeight == 40
cidrAffinityWeight == 30
idcAffinityWeight == 15
locationAffinityWeight == 10
clusterTypeWeight == 5

maxElementLen == 5

\* Scores in units of 1/maxElementLen.
maxScore == 1 * maxElementLen
minScore == 0

\* types.AffinitySeparator
AffinitySeparator == "|"

---------------------------------------------------------------------------
(* Strings. *)

\* Simple case folding of the characters the model uses.
Fold(c) ==
    CASE c = "A" -> "a"
      [] c = "B" -> "b"
      [] c = "X" -> "x"
      [] OTHER -> c

\* strings.EqualFold
EqualFold(s, t) ==
    /\ Len(s) = Len(t)
    /\ \A i \in 1..Len(s) : Fold(s[i]) = Fold(t[i])

\* strings.Split(s, sep): the segments of s between the separators; a string
\* without a separator (the empty one included) is one segment.
RECURSIVE Split(_, _)
Split(s, sep) ==
    IF \A i \in 1..Len(s) : s[i] # sep
    THEN <<s>>
    ELSE LET k == CHOOSE i \in 1..Len(s) :
                      s[i] = sep /\ \A h \in 1..(i - 1) : s[h] # sep
         IN  <<SubSeq(s, 1, k - 1)>> \o Split(SubSeq(s, k + 1, Len(s)), sep)

\* math.Min
Min(a, b) == IF a < b THEN a ELSE b

\* conditions[key]: a Go map read gives "" for a missing key.
Cond(conditions, key) ==
    IF key \in DOMAIN conditions THEN conditions[key] ELSE <<>>

---------------------------------------------------------------------------
(* Networks.  An IP string is a record with ok = FALSE (net.ParseIP gives  *)
(* nil) or ok = TRUE and an address in 0..2^IPBits-1; a CIDR string is a   *)
(* record with ok = FALSE (net.ParseCIDR fails) or ok = TRUE, an address   *)
(* and a prefix length.                                                    *)

RECURSIVE Pow2(_)
Pow2(n) == IF n = 0 THEN 1 ELSE 2 * Pow2(n - 1)

\* ranger.Contains for one inserted network.
NetContains(cidr, addr) ==
    LET block == Pow2(IPBits - cidr.bits)
    IN  (addr \div block) = (cidr.addr \div block)

---------------------------------------------------------------------------
(* The five sub-scores and Evaluate. *)

\* calculateSecurityDomainAffinityScore as it would be if it scored the match.
SecurityDomainScoreByMatch(securityDomain, securityRules) ==
    IF securityDomain = <<>>
    THEN minScore
    ELSE IF \E r \in 1..Len(securityRules) : EqualFold(securityRules[r], securityDomain)
         THEN maxScore
         ELSE minScore

calculateSecurityDomainAffinityScore(securityDomain, securityRules) ==
    IF securityDomain = <<>>
    THEN minScore
    ELSE IF Len(securityRules) = 0
         THEN minScore
         ELSE maxScore

calculateCIDRAffinityScore(ip, cidrs) ==
    LET inserted == {c \in 1..Len(cidrs) : cidrs[c].ok}
    IN  IF ~ip.ok
        THEN minScore
        ELSE IF ~(\E c \in inserted : NetContains(cidrs[c], ip.addr))
             THEN minScore
             ELSE maxScore

calculateIDCAffinityScore(dst, src) ==
    IF dst = <<>> \/ src = <<>>
    THEN minScore
    ELSE IF EqualFold(dst, src)
         THEN maxScore
         ELSE LET srcElements == Split(src, AffinitySeparator)
              IN  IF \E e \in 1..Len(srcElements) : EqualFold(dst, srcElements[e])
                  THEN maxScore
                  ELSE minScore

\* The element limit of calculateMultiElementAffinityScore with the cap left out.
ElementLenUncapped(dstElements, srcElements) ==
    Min(Len(dstElements), Len(srcElements))

\* elementLen of calculateMultiElementAffinityScore.
ElementLen(dstElements, srcElements) ==
    LET elementLen == Min(Len(dstElements), Len(srcElements))
    IN  IF elementLen > maxElementLen THEN maxElementLen ELSE elementLen

\* The matching loop with "continue" in place of "break": counts every match.
RECURSIVE MatchLoopNoBreak(_, _, _, _, _)
MatchLoopNoBreak(dstElements, srcElements, elementLen, i, score0) ==
    IF ~(i < elementLen)
    THEN score0
    ELSE IF ~EqualFold(dstElements[i + 1], srcElements[i + 1])
         THEN MatchLoopNoBreak(dstElements, srcElements, elementLen, i + 1, score0)
         ELSE MatchLoopNoBreak(dstElements, srcElements, elementLen, i + 1, score0 + 1)

\* The loop of calculateMultiElementAffinityScore from index i (0-based) with
\* score0 matches so far; it stops at the first mismatch.
RECURSIVE MatchLoop(_, _, _, _, _)
MatchLoop(dstElements, srcElements, elementLen, i, score0) ==
    IF ~(i < elementLen)
    THEN score0
    ELSE IF ~EqualFold(dstElements[i + 1], srcElements[i + 1])
         THEN score0
         ELSE MatchLoop(dstElements, srcElements, elementLen, i + 1, score0 + 1)

\* float64(score) / float64(maxElementLen), in units of 1/maxElementLen.
calculateMultiElementAffinityScore(dst, src) ==
    IF dst = <<>> \/ src = <<>>
    THEN minScore
    ELSE IF EqualFold(dst, src)
         THEN maxScore
         ELSE LET dstElements == Split(dst, AffinitySeparator)
                  srcElements == Split(src, AffinitySeparator)
              IN  MatchLoop(dstElements, srcElements,
                            ElementLen(dstElements, srcElements), 0, 0)

calculateClusterTypeScore(cluster) ==
    IF cluster.isDefault THEN maxScore ELSE minScore

\* The five sub-scores of Evaluate, unweighted.
SubScores(ip, conditions, scopes, cluster) ==
    [sd   |-> calculateSecurityDomainAffinityScore(
                  Cond(conditions, ConditionSecurityDomain), cluster.rules),
     cidr |-> calculateCIDRAffinityScore(ip, scopes.cidrs),
     idc  |-> calculateIDCAffinityScore(Cond(conditions, ConditionIDC), scopes.idc),
     loc  |-> calculateMultiElementAffinityScore(
                  Cond(conditions, ConditionLocation), scopes.location),
     type |-> calculateClusterTypeScore(cluster)]

Evaluate(ip, conditions, scopes, cluster) ==
    LET s == SubScores(ip, conditions, scopes, cluster)
    IN  securityDomainAffinityWeight * s.sd
        + cidrAffinityWeight * s.cidr
        + idcAffinityWeight * s.idc
        + locationAffinityWeight * s.loc
        + clusterTypeWeight * s.type

---------------------------------------------------------------------------
(* Filtering.  A cluster is a record: name, isDefault, schedulers (the     *)
(* number of active schedulers), rules (the domains of                     *)
(* SecurityGroup.SecurityRules, in order), scopesOk (whether               *)
(* mapstructure.Decode of Scopes succeeds) and scopes (what it decodes to).*)

\* The loop over the security rules from rule r on: one append per rule whose
\* domain equals the security domain.
RECURSIVE RuleLoop(_, _, _)
RuleLoop(schedulerCluster, securityDomain, r) ==
    IF r > Len(schedulerCluster.rules)
    THEN <<>>
    ELSE (IF EqualFold(schedulerCluster.rules[r], securityDomain)
          THEN <<schedulerCluster>>
          ELSE <<>>)
         \o RuleLoop(schedulerCluster, securityDomain, r + 1)

\* The iteration without the test for a cluster that has no security rules.
FilterAppendNoOpenCluster(securityDomain, schedulerCluster) ==
    IF schedulerCluster.schedulers = 0
    THEN <<>>
    ELSE IF securityDomain = <<>>
    THEN <<schedulerCluster>>
    ELSE IF schedulerCluster.isDefault
    THEN <<schedulerCluster>>
    ELSE RuleLoop(schedulerCluster, securityDomain, 1)

\* What one iteration of the loop of FilterSchedulerClusters appends.
FilterAppend(securityDomain, schedulerCluster) ==
    IF schedulerCluster.schedulers = 0
    THEN <<>>
    ELSE IF securityDomain = <<>>
    THEN <<schedulerCluster>>
    ELSE IF schedulerCluster.isDefault
    THEN <<schedulerCluster>>
    ELSE IF Len(schedulerCluster.rules) = 0
    THEN <<schedulerCluster>>
    ELSE RuleLoop(schedulerCluster, securityDomain, 1)

RECURSIVE FilterLoop(_, _, _)
FilterLoop(securityDomain, schedulerClusters, k) ==
    IF k > Len(schedulerClusters)
    THEN <<>>
    ELSE FilterAppend(securityDomain, schedulerClusters[k])
         \o FilterLoop(securityDomain, schedulerClusters, k + 1)

\* The filter with the zero-schedulers test left out.
FilterKeepingInactive(conditions, schedulerClusters) ==
    FilterLoop(Cond(conditions, ConditionSecurityDomain),
               [k \in 1..Len(schedulerClusters) |->
                   [schedulerClusters[k] EXCEPT !.schedulers = 1]], 1)

FilterSchedulerClusters(conditions, schedulerClusters) ==
    FilterLoop(Cond(conditions, ConditionSecurityDomain), schedulerClusters, 1)

---------------------------------------------------------------------------
(* Sorting.  sort.Slice on a slice of at most 12 elements is the insertion *)
(* sort  for i := 1; i < n; i++ { for j := i; j > 0 && less(j, j-1); j--   *)
(* { swap(j, j-1) } }.  Indices here are 1-based.                          *)

\* The comparator with the operands of > exchanged (ascending order).
LessAscending(clusters, i, j, ip, conditions) ==
    IF ~clusters[i].scopesOk
    THEN FALSE
    ELSE IF ~clusters[j].scopesOk
    THEN FALSE
    ELSE Evaluate(ip, conditions, clusters[i].scopes, clusters[i])
         < Evaluate(ip, conditions, clusters[j].scopes, clusters[j])

\* The comparator handed to sort.Slice.
Less(clusters, i, j, ip, conditions) ==
    IF ~clusters[i].scopesOk
    THEN FALSE
    ELSE IF ~clusters[j].scopesOk
    THEN FALSE
    ELSE Evaluate(ip, conditions, clusters[i].scopes, clusters[i])
         > Evaluate(ip, conditions, clusters[j].scopes, clusters[j])

Swap(clusters, i, j) ==
    [clusters EXCEPT ![i] = clusters[j], ![j] = clusters[i]]

\* One test of the inner loop's condition, with the swap that follows it or
\* the outer loop's increment.
SortStepOn(st, ip, conditions) ==
    IF st.j > 1 /\ Less(st.arr, st.j, st.j - 1, ip, conditions)
    THEN [arr |-> Swap(st.arr, st.j, st.j - 1), i |-> st.i, j |-> st.j - 1]
    ELSE [arr |-> st.arr, i |-> st.i + 1, j |-> st.i + 1]

RECURSIVE SortRun(_, _, _)
SortRun(st, ip, conditions) ==
    IF st.i > Len(st.arr)
    THEN st.arr
    ELSE SortRun(SortStepOn(st, ip, conditions), ip, conditions)

\* sort.Slice(clusters, less)
SortSlice(clusters, ip, conditions) ==
    SortRun([arr |-> clusters, i |-> 2, j |-> 2], ip, conditions)

---------------------------------------------------------------------------
(* Slices and goroutines. *)

Procs == {1, 2}

\* The nil slice.
NilSlice == 0

\* The backing array of the caller's schedulerClusters.
In(p) == p

\* A backing array no other slice refers to.
Fresh(p) == Cardinality(Procs) + p

ArrayIds == {In(p) : p \in Procs} \cup {Fresh(p) : p \in Procs}

\* The filter writing its result over the caller's backing array.
FilterInPlace(p) == In(p)

\* The filter writing its result into one buffer kept by the searcher.
SearcherBuffer(p) == Fresh(1)

\* The backing array of the slice FilterSchedulerClusters returns: it appends
\* to a nil slice, which allocates.
FilterTarget(p) == Fresh(p)

\* The list a returned slice holds.
ListOf(slice) == IF slice = NilSlice THEN <<>> ELSE heap[slice]

\* New returning the plugin whatever LoadPlugin's error.
NewIgnoringErr(err) == "plugin"

\* The searcher New returns, given LoadPlugin's error.
NewResult(err) == IF err # "nil" THEN "default" ELSE "plugin"

\* The outcomes of LoadPlugin.
LoadPluginResults == {"nil", "err"}

\* What FindSchedulerClusters returns for a list, run alone: the error and
\* the returned list.
FindResult(schedulerClusters, ip, conditions) ==
    IF Len(schedulerClusters) <= 0
    THEN [err |-> "EmptyInput", list |-> <<>>, isNil |-> TRUE]
    ELSE LET clusters == FilterSchedulerClusters(conditions, schedulerClusters)
         IN  IF Len(clusters) = 0
             THEN [err |-> "NoMatch", list |-> <<>>, isNil |-> TRUE]
             ELSE [err |-> "nil", list |-> SortSlice(clusters, ip, conditions),
                   isNil |-> FALSE]

NoScore == [sd |-> 0, cidr |-> 0, idc |-> 0, loc |-> 0, type |-> 0,
            total |-> 0, set |-> FALSE]

---------------------------------------------------------------------------
(* Inputs. *)

EmptyMap == [k \in {} |-> <<>>]

NoScopes == [idc |-> <<>>, location |-> <<>>, cidrs |-> <<>>]

BadCIDR == [ok |-> FALSE, addr |-> 0, bits |-> 0]
LowHalf == [ok |-> TRUE, addr |-> 0, bits |-> 1]
HighHalf == [ok |-> TRUE, addr |-> Pow2(IPBits - 1), bits |-> 1]

BadIP == [ok |-> FALSE, addr |-> 0]
GoodIP == [ok |-> TRUE, addr |-> 5]

\* The candidate clusters of the requests.
Universe ==
    { [name |-> "default", isDefault |-> TRUE, schedulers |-> 1,
       rules |-> << <<"B">> >>, scopesOk |-> TRUE, scopes |-> NoScopes],
      [name |-> "edge", isDefault |-> FALSE, schedulers |-> 1,
       rules |-> <<>>, scopesOk |-> TRUE,
       scopes |-> [idc |-> <<"X">>, location |-> <<"a", "|", "b">>,
                   cidrs |-> <<BadCIDR, LowHalf>>]],
      [name |-> "secure", isDefault |-> FALSE, schedulers |-> 1,
       rules |-> << <<"A">>, <<"a">> >>, scopesOk |-> TRUE,
       scopes |-> [idc |-> <<"a", "|", "x">>, location |-> <<"A", "|", "x">>,
                   cidrs |-> <<>>]],
      [name |-> "other", isDefault |-> FALSE, schedulers |-> 1,
       rules |-> << <<"B">> >>, scopesOk |-> TRUE,
       scopes |-> [idc |-> <<>>, location |-> <<>>, cidrs |-> <<HighHalf>>]],
      [name |-> "down", isDefault |-> FALSE, schedulers |-> 0,
       rules |-> <<>>, scopesOk |-> TRUE,
       scopes |-> [idc |-> <<"x">>, location |-> <<"a", "|", "b">>,
                   cidrs |-> <<LowHalf>>]],
      [name |-> "broken", isDefault |-> FALSE, schedulers |-> 1,
       rules |-> << <<"b">>, <<"A">> >>, scopesOk |-> FALSE, scopes |-> NoScopes] }

Lists(S, n) == UNION {[1..k -> S] : k \in 0..n}

CandidateLists == Lists(Universe, MaxClusters)

SecurityDomainMaps ==
    { EmptyMap,
      ConditionSecurityDomain :> <<>>,
      ConditionSecurityDomain :> <<"a">>,
      ConditionSecurityDomain :> <<"b">> }

LocalityMaps ==
    { EmptyMap,
      ConditionIDC :> <<"x">>,
      (ConditionIDC :> <<"x">>) @@ (ConditionLocation :> <<"a", "|", "b">>) }

CondMaps == {sd @@ loc : sd \in SecurityDomainMaps, loc \in LocalityMaps}

IPs == {BadIP, GoodIP}

InitCommon ==
    /\ s_cidrs = <<>>
    /\ pc = [p \in Procs |-> "idle"]
    /\ idx = [p \in Procs |-> [clusters |-> NilSlice, i |-> 0, j |-> 0]]
    /\ ret = [p \in Procs |-> [clusters |-> NilSlice, err |-> "unset"]]
    /\ served = [p \in Procs |-> "none"]
    /\ nreq = 0
    /\ score = NoScore

\* Before New: one caller with one request.
Init ==
    /\ active = "none"
    /\ loadErr = "unset"
    /\ \E cs \in CandidateLists, conditions \in CondMaps, ip \in IPs :
          /\ heap = [a \in ArrayIds |-> IF a = In(1) THEN cs ELSE <<>>]
          /\ args = [p \in Procs |-> [ip |-> ip, conditions |-> conditions]]
          /\ orig = [p \in Procs |-> IF p = 1 THEN cs ELSE <<>>]
    /\ InitCommon

---------------------------------------------------------------------------
(* Startup and sequential requests. *)

New ==
    /\ active = "none"
    /\ \E err \in LoadPluginResults :
          /\ loadErr' = err
          /\ active' = NewResult(err)
    /\ UNCHANGED <<s_cidrs, heap, args, orig, pc, idx, ret, served, nreq, score>>

\* A whole call of the default searcher's FindSchedulerClusters.
FindSchedulerClusters(p) ==
    /\ active = "default"
    /\ pc[p] = "idle"
    /\ nreq < MaxRequests
    /\ LET schedulerClusters == heap[In(p)]
           ip == args[p].ip
           conditions == args[p].conditions
           target == FilterTarget(p)
           filtered == [heap EXCEPT ![target] =
                           FilterSchedulerClusters(conditions, schedulerClusters)]
       IN  /\ orig' = [orig EXCEPT ![p] = schedulerClusters]
           /\ IF Len(schedulerClusters) <= 0
              THEN /\ ret' = [ret EXCEPT ![p] =
                                 [clusters |-> NilSlice, err |-> "EmptyInput"]]
                   /\ heap' = heap
              ELSE IF Len(filtered[target]) = 0
              THEN /\ ret' = [ret EXCEPT ![p] =
                                 [clusters |-> NilSlice, err |-> "NoMatch"]]
                   /\ heap' = filtered
              ELSE /\ ret' = [ret EXCEPT ![p] =
                                 [clusters |-> target, err |-> "nil"]]
                   /\ heap' = [filtered EXCEPT ![target] =
                                  SortSlice(filtered[target], ip, conditions)]
    /\ pc' = [pc EXCEPT ![p] = "done"]
    /\ served' = [served EXCEPT ![p] = "default"]
    /\ UNCHANGED <<active, loadErr, s_cidrs, args, idx, nreq, score>>

\* A call served by the searcher the plugin supplies.
PluginFindSchedulerClusters(p) ==
    /\ active = "plugin"
    /\ pc[p] = "idle"
    /\ nreq < MaxRequests
    /\ pc' = [pc EXCEPT ![p] = "done"]
    /\ served' = [served EXCEPT ![p] = "plugin"]
    /\ ret' = [ret EXCEPT ![p] = [clusters |-> NilSlice, err |-> "plugin"]]
    /\ UNCHANGED <<active, loadErr, s_cidrs, heap, args, orig, idx, nreq, score>>

\* The caller takes the result and makes its next request.
NextRequest(p) ==
    /\ pc[p] = "done"
    /\ pc' = [pc EXCEPT ![p] = "idle"]
    /\ nreq' = nreq + 1
    /\ UNCHANGED <<active, loadErr, s_cidrs, heap, args, orig, idx, ret, served, score>>

Next ==
    \/ New
    \/ FindSchedulerClusters(1)
    \/ PluginFindSchedulerClusters(1)
    \/ NextRequest(1)

Spec == Init /\ [][Next]_vars

---------------------------------------------------------------------------
(* Properties of the sequential requests. *)

Range(seq) == {seq[k] : k \in 1..Len(seq)}

Count(seq, c) == Cardinality({k \in 1..Len(seq) : seq[k] = c})

\* Eligibility as the specification states it.
Eligible(securityDomain, c) ==
    /\ c.schedulers > 0
    /\ \/ securityDomain = <<>>
       \/ c.isDefault
       \/ Len(c.rules) = 0
       \/ \E r \in 1..Len(c.rules) : EqualFold(c.rules[r], securityDomain)

SecurityDomainOf(p) == Cond(args[p].conditions, ConditionSecurityDomain)

\* Goroutine p's call of the default searcher has returned.
Returned(p) == pc[p] = "done" /\ served[p] = "default"

Succeeded(p) == Returned(p) /\ ret[p].err = "nil"

Result(p) == ListOf(ret[p].clusters)

ScoreOf(p, c) == Evaluate(args[p].ip, args[p].conditions, c.scopes, c)

\* C1: when FindSchedulerClusters succeeds, the returned list holds exactly
\* the eligible input clusters, each as many times as the input holds it.
C1_ExactSubset ==
    \A p \in Procs :
        Succeeded(p) =>
            \A c \in Universe :
                Count(Result(p), c) =
                    IF Eligible(SecurityDomainOf(p), c) THEN Count(orig[p], c) ELSE 0

\* C2: the filter keeps a cluster exactly when it has an active scheduler and
\* the client has no security domain, or the cluster is the default one, or
\* has no rules, or has a rule equal to the domain up to case; a cluster
\* without active schedulers is never returned.
C2_FilterRules ==
    \A p \in Procs :
        Returned(p) =>
            /\ \A c \in Universe :
                  c \in Range(FilterSchedulerClusters(args[p].conditions, orig[p]))
                      <=> (c \in Range(orig[p]) /\ Eligible(SecurityDomainOf(p), c))
            /\ \A c \in Range(Result(p)) :
                  /\ c.schedulers # 0
                  /\ c \in Range(orig[p])
                  /\ Eligible(SecurityDomainOf(p), c)

\* Of an inactive cluster, one with another domain's rule and one with a
\* matching rule, only the last is returned.
C2_Witness ==
    /\ Succeeded(1)
    /\ SecurityDomainOf(1) = <<"a">>
    /\ \E c \in Range(orig[1]) : c.schedulers = 0
    /\ \E c \in Range(orig[1]) : c.name = "other"
    /\ {c.name : c \in Range(Result(1))} = {"secure"}

\* C3: the call fails exactly when the candidate list is empty (EmptyInput)
\* or non-empty with no eligible cluster (NoMatch), and then returns a nil
\* list; otherwise it returns a non-empty list and no error.
C3_Errors ==
    \A p \in Procs :
        Returned(p) =>
            LET anyEligible ==
                    \E c \in Range(orig[p]) : Eligible(SecurityDomainOf(p), c)
            IN  /\ ret[p].err \in {"nil", "EmptyInput", "NoMatch"}
                /\ ret[p].err = "EmptyInput" <=> Len(orig[p]) = 0
                /\ ret[p].err = "NoMatch" <=> (Len(orig[p]) > 0 /\ ~anyEligible)
                /\ ret[p].err # "nil" => ret[p].clusters = NilSlice
                /\ ret[p].err = "nil" =>
                       (ret[p].clusters # NilSlice /\ Len(Result(p)) > 0)

\* An undecodable scope, an unparsable CIDR and an unparsable IP in one
\* successful request.
C3_Witness ==
    /\ Succeeded(1)
    /\ ~args[1].ip.ok
    /\ \E c \in Range(Result(1)) : ~c.scopesOk
    /\ \E c \in Range(Result(1)) :
          c.scopesOk /\ \E k \in 1..Len(c.scopes.cidrs) : ~c.scopes.cidrs[k].ok

\* C4: when the scope of every returned cluster decodes, the returned list
\* is in descending order of Evaluate.
C4_Descending ==
    \A p \in Procs :
        (Succeeded(p) /\ \A c \in Range(Result(p)) : c.scopesOk) =>
            \A i, j \in 1..Len(Result(p)) :
                i < j => ScoreOf(p, Result(p)[i]) >= ScoreOf(p, Result(p)[j])

\* The default cluster (0.05) listed before the edge cluster (0.45, from the
\* CIDR and IDC matches) comes back after it.
C4_Witness ==
    /\ Succeeded(1)
    /\ Len(orig[1]) = 2
    /\ orig[1][1].name = "default" /\ orig[1][2].name = "edge"
    /\ Len(Result(1)) = 2
    /\ Result(1)[1].name = "edge" /\ Result(1)[2].name = "default"
    /\ ScoreOf(1, Result(1)[1]) = 45 * maxElementLen
    /\ ScoreOf(1, Result(1)[2]) = 5 * maxElementLen

\* C6: New selects the searcher once: the plugin if LoadPlugin succeeds, the
\* default searcher if it fails; the selection never changes afterwards,
\* every request is served by it, and no request reports the load failure.
C6_StrategyFixed ==
    /\ [](loadErr = "err" => active = "default")
    /\ [](loadErr = "nil" => active = "plugin")
    /\ [][active # "none" => active' = active]_vars
    /\ [](\A p \in Procs : served[p] \in {"none", active})
    /\ [](\A p \in Procs :
            loadErr = "err" =>
                ret[p].err \in {"unset", "nil", "EmptyInput", "NoMatch"})

\* The load failed and the default searcher has served a second request.
C6_Witness ==
    /\ loadErr = "err"
    /\ active = "default"
    /\ nreq >= 1
    /\ Returned(1)

\* C7: no step changes the caller's candidate list or the conditions.
C7_InputsUnchanged ==
    [][/\ \A p \in Procs : heap'[In(p)] = heap[In(p)]
       /\ args' = args]_vars

\* A request whose result differs from its input in length and order, with
\* the input as it was.
C7_Witness ==
    /\ Succeeded(1)
    /\ heap[In(1)] = orig[1]
    /\ Len(orig[1]) = 3
    /\ Len(Result(1)) = 2
    /\ Result(1)[1] = orig[1][3]
    /\ Result(1)[2] = orig[1][1]

---------------------------------------------------------------------------
(* Concurrent requests: two goroutines call FindSchedulerClusters of the   *)
(* default searcher; a step is the filter, one test of the sort's inner    *)
(* loop, or the return.                                                    *)

ConcUniverse == {c \in Universe : c.name \in {"default", "edge", "secure"}}

ConcLists == Lists(ConcUniverse, MaxConcLen)

ConcConds ==
    { EmptyMap,
      (ConditionSecurityDomain :> <<"a">>) @@ (ConditionIDC :> <<"x">>) }

InitConc ==
    /\ active = "default"
    /\ loadErr = "err"
    /\ \E cs1, cs2 \in ConcLists, c1, c2 \in ConcConds :
          /\ heap = [a \in ArrayIds |->
                        IF a = In(1) THEN cs1 ELSE IF a = In(2) THEN cs2 ELSE <<>>]
          /\ args = [p \in Procs |->
                        [ip |-> GoodIP, conditions |-> IF p = 1 THEN c1 ELSE c2]]
          /\ orig = [p \in Procs |-> IF p = 1 THEN cs1 ELSE cs2]
    /\ InitCommon

\* The length tests and the filter.
FindBegin(p) ==
    /\ active = "default"
    /\ pc[p] = "idle"
    /\ LET schedulerClusters == heap[In(p)]
           target == FilterTarget(p)
           filtered == [heap EXCEPT ![target] =
                           FilterSchedulerClusters(args[p].conditions,
                                                   schedulerClusters)]
       IN  /\ orig' = [orig EXCEPT ![p] = schedulerClusters]
           /\ IF Len(schedulerClusters) <= 0
              THEN /\ ret' = [ret EXCEPT ![p] =
                                 [clusters |-> NilSlice, err |-> "EmptyInput"]]
                   /\ heap' = heap
                   /\ pc' = [pc EXCEPT ![p] = "done"]
                   /\ idx' = idx
              ELSE IF Len(filtered[target]) = 0
              THEN /\ ret' = [ret EXCEPT ![p] =
                                 [clusters |-> NilSlice, err |-> "NoMatch"]]
                   /\ heap' = filtered
                   /\ pc' = [pc EXCEPT ![p] = "done"]
                   /\ idx' = idx
              ELSE /\ ret' = ret
                   /\ heap' = filtered
                   /\ pc' = [pc EXCEPT ![p] = "sort"]
                   /\ idx' = [idx EXCEPT ![p] = [clusters |-> target, i |-> 2, j |-> 2]]
    /\ served' = [served EXCEPT ![p] = "default"]
    /\ UNCHANGED <<active, loadErr, s_cidrs, args, nreq, score>>

\* One step of sort.Slice on the slice clusters.
SortStep(p) ==
    /\ pc[p] = "sort"
    /\ idx[p].i <= Len(heap[idx[p].clusters])
    /\ LET st == SortStepOn([arr |-> heap[idx[p].clusters],
                             i |-> idx[p].i, j |-> idx[p].j],
                            args[p].ip, args[p].conditions)
       IN  /\ heap' = [heap EXCEPT ![idx[p].clusters] = st.arr]
           /\ idx' = [idx EXCEPT ![p] = [clusters |-> idx[p].clusters,
                                         i |-> st.i, j |-> st.j]]
    /\ UNCHANGED <<active, loadErr, s_cidrs, args, orig, pc, ret, served, nreq, score>>

\* return clusters, nil
FindReturn(p) ==
    /\ pc[p] = "sort"
    /\ idx[p].i > Len(heap[idx[p].clusters])
    /\ ret' = [ret EXCEPT ![p] = [clusters |-> idx[p].clusters, err |-> "nil"]]
    /\ pc' = [pc EXCEPT ![p] = "done"]
    /\ UNCHANGED <<active, loadErr, s_cidrs, heap, args, orig, idx, served, nreq, score>>

NextConc ==
    \E p \in Procs :
        \/ FindBegin(p)
        \/ SortStep(p)
        \/ FindReturn(p)

SpecConc == InitConc /\ [][NextConc]_vars

\* C8: under every interleaving, a call that has returned holds the error
\* and the list that the same call returns when run alone, and the
\* searcher's own state is untouched.
C8_NoInterference ==
    /\ s_cidrs = <<>>
    /\ \A p \in Procs :
          Returned(p) =>
              [err |-> ret[p].err, list |-> Result(p),
               isNil |-> ret[p].clusters = NilSlice]
                  = FindResult(orig[p], args[p].ip, args[p].conditions)

\* Goroutine 1 has returned a reordered list while goroutine 2, with other
\* conditions and another list, has swapped and is still sorting.
C8_Witness ==
    /\ Succeeded(1)
    /\ Len(Result(1)) = 2
    /\ Result(1) # FilterSchedulerClusters(args[1].conditions, orig[1])
    /\ pc[2] = "sort"
    /\ idx[2].j = 1
    /\ args[2].conditions # args[1].conditions
    /\ orig[2] # orig[1]
    /\ heap[idx[2].clusters] # FilterSchedulerClusters(args[2].conditions, orig[2])

---------------------------------------------------------------------------
(* Scoring: Evaluate applied to one client and one cluster. *)

LocStrings ==
    { <<>>,
      <<"a">>,
      <<"A">>,
      <<"a", "|", "b">>,
      <<"A", "|", "B">>,
      <<"x", "|", "b">>,
      <<"a", "|", "b", "|", "x">>,
      <<"A", "|", "x", "|", "X">>,
      <<"|", "|", "|", "|", "|">>,
      <<"|", "|", "|", "|", "|", "|">> }

ScoreClusters ==
    { [name |-> "c", isDefault |-> d, schedulers |-> 1, rules |-> r,
       scopesOk |-> TRUE,
       scopes |-> [idc |-> i, location |-> l, cidrs |-> n]] :
          d \in BOOLEAN,
          r \in {<<>>, << <<"A">> >>, << <<"b">> >>},
          i \in {<<>>, <<"X">>, <<"a", "|", "x">>},
          l \in LocStrings,
          n \in {<<>>, <<BadCIDR>>, <<BadCIDR, LowHalf>>} }

ScoreConds ==
    { sd @@ idc @@ loc :
          sd \in {EmptyMap, ConditionSecurityDomain :> <<"a">>},
          idc \in {EmptyMap, ConditionIDC :> <<"x">>},
          loc \in {ConditionLocation :> l : l \in LocStrings} }

InitScore ==
    /\ active = "default"
    /\ loadErr = "err"
    /\ \E c \in ScoreClusters, conditions \in ScoreConds, ip \in IPs :
          /\ heap = [a \in ArrayIds |-> IF a = In(1) THEN <<c>> ELSE <<>>]
          /\ args = [p \in Procs |-> [ip |-> ip, conditions |-> conditions]]
          /\ orig = [p \in Procs |-> IF p = 1 THEN <<c>> ELSE <<>>]
    /\ InitCommon

\* A call of Evaluate for the client and the cluster, the scopes decoded.
EvaluateCall ==
    /\ ~score.set
    /\ LET cluster == heap[In(1)][1]
           s == SubScores(args[1].ip, args[1].conditions, cluster.scopes, cluster)
       IN  score' = [sd |-> s.sd, cidr |-> s.cidr, idc |-> s.idc, loc |-> s.loc,
                     type |-> s.type,
                     total |-> Evaluate(args[1].ip, args[1].conditions,
                                        cluster.scopes, cluster),
                     set |-> TRUE]
    /\ UNCHANGED <<active, loadErr, s_cidrs, heap, args, orig, pc, idx, ret, served, nreq>>

NextScore == EvaluateCall

SpecScore == InitScore /\ [][NextScore]_vars

ScoredCluster == heap[In(1)][1]

ClientLocation == Cond(args[1].conditions, ConditionLocation)

\* C5: every sub-score lies between 0 and 1, the weights sum to 1, every
\* weighted term lies between 0 and its weight, and Evaluate between 0 and 1.
C5_ScoreRange ==
    score.set =>
        /\ \A f \in {"sd", "cidr", "idc", "loc", "type"} :
              score[f] >= minScore /\ score[f] <= maxScore
        /\ securityDomainAffinityWeight + cidrAffinityWeight + idcAffinityWeight
              + locationAffinityWeight + clusterTypeWeight = 100
        /\ securityDomainAffinityWeight * score.sd
              \in 0..(securityDomainAffinityWeight * maxScore)
        /\ cidrAffinityWeight * score.cidr \in 0..(cidrAffinityWeight * maxScore)
        /\ idcAffinityWeight * score.idc \in 0..(idcAffinityWeight * maxScore)
        /\ locationAffinityWeight * score.loc
              \in 0..(locationAffinityWeight * maxScore)
        /\ clusterTypeWeight * score.type \in 0..(clusterTypeWeight * maxScore)
        /\ score.total \in 0..(100 * maxScore)

\* Every sub-score at its maximum, the location one by a prefix of five
\* segments of locations with six and seven.
C5_Witness ==
    /\ score.set
    /\ score.total = 100 * maxScore
    /\ Len(Split(ClientLocation, AffinitySeparator)) = 6
    /\ Len(Split(ScoredCluster.scopes.location, AffinitySeparator)) = 7

\* The length of the longest run of equal segment pairs from the first pair
\* on, among the first n pairs.
PrefixRun(d, s, n) ==
    CHOOSE k \in 0..n :
        /\ \A i \in 1..k : EqualFold(d[i], s[i])
        /\ k < n => ~EqualFold(d[k + 1], s[k + 1])

\* C9: the location sub-score is 0 if either location is empty, 1 if they
\* are equal up to case, and otherwise k/5 for the prefix run k among the
\* first min(segments, segments, 5) pairs.
C9_LocationPrefix ==
    score.set =>
        LET dst == ClientLocation
            src == ScoredCluster.scopes.location
            d == Split(dst, AffinitySeparator)
            s == Split(src, AffinitySeparator)
            n == Min(Min(Len(d), Len(s)), 5)
        IN  score.loc =
                IF dst = <<>> \/ src = <<>> THEN 0
                ELSE IF EqualFold(dst, src) THEN maxElementLen
                ELSE PrefixRun(d, s, n)

\* a|b|x against A|x|X: the third pair is equal, the second is not, the
\* score is 1/5.
C9_Witness ==
    /\ score.set
    /\ ClientLocation = <<"a", "|", "b", "|", "x">>
    /\ ScoredCluster.scopes.location = <<"A", "|", "x", "|", "X">>
    /\ score.loc = 1

\* C10: the security-domain sub-score is 1 exactly when the client has a
\* security domain and the cluster has a rule, whatever the rules' domains.
C10_SecurityDomainScore ==
    score.set =>
        /\ score.sd \in {minScore, maxScore}
        /\ score.sd = maxScore <=>
              (Cond(args[1].conditions, ConditionSecurityDomain) # <<>>
               /\ Len(ScoredCluster.rules) > 0)

\* A default cluster whose only rule names another domain passes the filter
\* and scores 1.
C10_Witness ==
    /\ score.set
    /\ ScoredCluster.isDefault
    /\ Cond(args[1].conditions, ConditionSecurityDomain) = <<"a">>
    /\ ScoredCluster.rules = << <<"b">> >>
    /\ FilterSchedulerClusters(args[1].conditions, <<ScoredCluster>>) = <<ScoredCluster>>
    /\ score.sd = maxScore

=============================================================================
